---- MODULE Spec2Model ----
(***************************************************************************)
(* Light-client contract (icsxx-ethereum-cw) and guest client helpers      *)
(* (cf-guest) of ComposableFi/beefy-client as a state machine.             *)
(*                                                                         *)
(* Storage of the contract: the client state, the consensus states keyed   *)
(* by height and the time/height at which each consensus state was stored, *)
(* under the subject prefix; a second client under the substitute prefix.  *)
(* One action per ExecuteMsg variant of process_message.                   *)
(*                                                                         *)
(* The relayer's side: the Grandpa light-client sync of the parachain      *)
(* client (is_synced, fetch_mandatory_updates), packet discovery and       *)
(* delivery on a channel, send_retrying, create_intervals and              *)
(* query_latest_ibc_events (one call, and consecutive relay iterations) of *)
(* the ethereum client. Each part has its own specification over the same  *)
(* variables, the other parts at rest.                                     *)
(***************************************************************************)
EXTENDS Integers, Sequences, FiniteSets, TLC

\* ------------------------------------------------------------------ bounds
MaxHeight == 2      \* heights of the counterparty chain are 1..MaxHeight
MaxTime == 1        \* host block height / time run 0..MaxTime
MaxDelay == 1       \* connection delay periods are 0..MaxDelay
MaxBatch == 2       \* a header carries at most MaxBatch consensus states
U64Bits == 3        \* width of the model's u64 (the code's is 64)

Heights == 1..MaxHeight
Roots == {"ra", "rb"}
Values == {"v"}
Addrs == {"core1", "core2"}
UpgradeIds == {0, 1}

\* Option<T>
None == <<>>
Some(x) == <<x>>
IsSome(o) == o # <<>>
Unwrap(o) == o[1]

VARIABLES
    client_state,           \* subject ClientState
    consensus_states,       \* subject: height -> Option<ConsensusState>
    processed,              \* subject: height -> Option<[time, height]> of the store
    substitute_client_state,       \* Option<ClientState> under SUBSTITUTE_PREFIX
    substitute_consensus_states,   \* height -> Option<ConsensusState>
    env,                    \* host block: [height, time]
    last,                   \* the last message processed and its result
    guest,                  \* cf-guest ClientState: [latest_height, is_frozen]
    overflow_checks,        \* build profile: does u64 overflow panic (TRUE) or wrap
    call,                   \* the last helper or relayer call and its result
    commitments,            \* source chain: sequences with a packet commitment
    receipts,               \* destination chain: sequences with a packet receipt
    mempool,                \* destination chain: deliveries submitted, not yet executed
    pending,                \* relayer: sequences of the last discovery still to submit
    in_flight,              \* relayer: the delivery whose confirmation it awaits
    delivered,              \* destination chain: sequences in the order they were delivered
    send,                   \* send_retrying: [pc, attempts, result, outcome]
    cp_client_height,       \* counterparty's client of this chain: its latest height
    queried                 \* history: the updates emitted so far, with their log windows

vars == <<client_state, consensus_states, processed, substitute_client_state,
          substitute_consensus_states, env, last, guest, overflow_checks, call,
          commitments, receipts, mempool, pending, in_flight, delivered, send,
          cp_client_height, queried>>

contract_vars == <<client_state, consensus_states, processed, substitute_client_state,
                   substitute_consensus_states, env, last>>
guest_vars == <<guest, overflow_checks, call>>
packet_vars == <<commitments, receipts, mempool, pending, in_flight, delivered>>
events_vars == <<cp_client_height, queried>>
relay_vars == <<packet_vars, send, events_vars>>

\* ------------------------------------------------------- contract: storage
\* The subject storage as one value.
Store == [client_state |-> client_state, consensus_states |-> consensus_states,
          processed |-> processed]

ConsensusState(root) == [root |-> root]

\* Context::consensus_state: Err when nothing is stored at the height.
ctx_consensus_state(store, height) == store.consensus_states[height]

\* Context::store_consensus_state: writes the entry and its update time/height.
store_consensus_state(store, height, cs, e) ==
    [store EXCEPT !.consensus_states[height] = Some(cs),
                  !.processed[height] = Some([time |-> e.time, height |-> e.height])]

\* Context::store_client_state
store_client_state(store, cs) == [store EXCEPT !.client_state = cs]

\* the Batch arm of store_client_and_consensus_states: in list order
RECURSIVE store_batch(_, _, _)
store_batch(store, css, e) ==
    IF css = <<>> THEN store
    ELSE store_batch(store_consensus_state(store, css[1].height, css[1].cs, e), Tail(css), e)

\* store_client_and_consensus_states refusing to write a height that is already stored
store_client_and_consensus_states_once(store, new_client_state, consensus_update, e) ==
    LET height == new_client_state.latest_height
        taken == IF consensus_update.kind = "Single"
                 THEN IsSome(store.consensus_states[height])
                 ELSE \E i \in 1..Len(consensus_update.css) :
                        IsSome(store.consensus_states[consensus_update.css[i].height])
        s1 == IF consensus_update.kind = "Single"
              THEN store_consensus_state(store, height, consensus_update.cs, e)
              ELSE store_batch(store, consensus_update.css, e)
    IN IF taken THEN [ok |-> FALSE, store |-> store]
       ELSE [ok |-> TRUE, store |-> store_client_state(s1, new_client_state)]

store_client_and_consensus_states(store, new_client_state, consensus_update, e) ==
    LET height == new_client_state.latest_height
        s1 == IF consensus_update.kind = "Single"
              THEN store_consensus_state(store, height, consensus_update.cs, e)
              ELSE store_batch(store, consensus_update.css, e)
    IN [ok |-> TRUE, store |-> store_client_state(s1, new_client_state)]

\* ------------------------------------------- EthereumClient (client_def)
Max(a, b) == IF a >= b THEN a ELSE b

\* The consensus state a header entry commits to.
EntryCs(entry) == ConsensusState(entry.root)
Target(header) == header.entries[Len(header.entries)]

\* verify_ibc_proof(prefix, proof, root, address, path, value): "Yes", "No" or "Err".
\* A well-formed proof carries the root it was generated against and the value
\* (None: absent) it shows at the path.
verify_ibc_proof(proof, root, value) ==
    IF ~proof.wellformed THEN "Err"
    ELSE IF proof.root = root /\ proof.value = value THEN "Yes"
    ELSE "No"

\* EthereumClient::verify_client_message: the finality protocol's verdict.
verify_client_message(cs, header) == header.status = "valid"

\* EthereumClient::check_for_misbehaviour: a stored consensus state at one of
\* the header's heights disagrees with the header.
check_for_misbehaviour(store, header) ==
    \E i \in 1..Len(header.entries) :
        LET e == header.entries[i] IN
        /\ IsSome(store.consensus_states[e.height])
        /\ Unwrap(store.consensus_states[e.height]) # EntryCs(e)

\* EthereumClient::update_state_on_misbehaviour: freezes at the current height.
update_state_on_misbehaviour(cs, header) ==
    [ok |-> TRUE, client_state |-> [cs EXCEPT !.frozen_height = Some(cs.latest_height)]]

RECURSIVE BatchOf(_)
BatchOf(entries) ==
    IF entries = <<>> THEN <<>>
    ELSE <<[height |-> entries[1].height, cs |-> EntryCs(entries[1])]>> \o BatchOf(Tail(entries))

\* update_state taking the header's height as the latest height
update_state_to_header_height(cs, header) ==
    IF IsSome(cs.frozen_height) \/ header.status # "valid"
    THEN [ok |-> FALSE]
    ELSE [ok |-> TRUE,
          client_state |-> [cs EXCEPT !.latest_height = Target(header).height],
          update |-> IF header.form = "Single"
                     THEN [kind |-> "Single", cs |-> EntryCs(Target(header))]
                     ELSE [kind |-> "Batch", css |-> BatchOf(header.entries)]]

\* EthereumClient::update_state: a candidate client state and consensus update,
\* nothing stored.
update_state(cs, header) ==
    IF IsSome(cs.frozen_height) \/ header.status # "valid"
    THEN [ok |-> FALSE]
    ELSE [ok |-> TRUE,
          client_state |-> [cs EXCEPT !.latest_height = Max(@, Target(header).height)],
          update |-> IF header.form = "Single"
                     THEN [kind |-> "Single", cs |-> EntryCs(Target(header))]
                     ELSE [kind |-> "Batch", css |-> BatchOf(header.entries)]]

\* EthereumClient::verify_upgrade_and_update_state: the upgraded client keeps
\* its frozen height; the two upgrade proofs must verify.
verify_upgrade_and_update_state(cs, upgrade) ==
    IF ~upgrade.proofs_ok THEN [ok |-> FALSE]
    ELSE [ok |-> TRUE,
          client_state |-> [cs EXCEPT !.latest_height = upgrade.height],
          update |-> [kind |-> "Single", cs |-> ConsensusState(upgrade.root)]]

\* --------------------------------------------- contract: process_message
Fail(store) == [ok |-> FALSE, store |-> store]
Done(store) == [ok |-> TRUE, store |-> store]

\* VerifyMembership without the ensure!(verified == Verified::Yes)
ProcessVerifyMembership_no_ensure(store, msg) ==
    LET consensus_state == ctx_consensus_state(store, msg.height) IN
    IF ~IsSome(consensus_state) THEN Fail(store)
    ELSE LET verified == verify_ibc_proof(msg.proof, Unwrap(consensus_state).root,
                                          Some(msg.value)) IN
         IF verified = "Err" THEN Fail(store)
         ELSE Done(store)

\* ExecuteMsg::VerifyMembership
ProcessVerifyMembership(store, msg) ==
    LET consensus_state == ctx_consensus_state(store, msg.height) IN
    IF ~IsSome(consensus_state) THEN Fail(store)
    ELSE LET verified == verify_ibc_proof(msg.proof, Unwrap(consensus_state).root,
                                          Some(msg.value)) IN
         IF verified = "Err" THEN Fail(store)
         ELSE IF verified # "Yes" THEN Fail(store)
         ELSE Done(store)

\* ExecuteMsg::VerifyNonMembership
ProcessVerifyNonMembership(store, msg) ==
    LET consensus_state == ctx_consensus_state(store, msg.height) IN
    IF ~IsSome(consensus_state) THEN Fail(store)
    ELSE LET verified == verify_ibc_proof(msg.proof, Unwrap(consensus_state).root, None) IN
         IF verified = "Err" THEN Fail(store)
         ELSE IF verified # "Yes" THEN Fail(store)
         ELSE Done(store)

\* ExecuteMsg::VerifyClientMessage
ProcessVerifyClientMessage(store, header) ==
    IF header.status = "undecodable" THEN Fail(store)
    ELSE IF verify_client_message(store.client_state, header) THEN Done(store)
    ELSE Fail(store)

\* CheckForMisbehaviour freezing the client itself when it detects misbehaviour
ProcessCheckForMisbehaviour_freezing(store, header) ==
    IF header.status = "undecodable" THEN Fail(store)
    ELSE IF check_for_misbehaviour(store, header)
         THEN [ok |-> TRUE,
               store |-> store_client_state(store,
                            [store.client_state EXCEPT
                                !.frozen_height = Some(store.client_state.latest_height)]),
               misbehaviour |-> TRUE]
         ELSE [ok |-> TRUE, store |-> store, misbehaviour |-> FALSE]

\* ExecuteMsg::CheckForMisbehaviour; the answer travels in the response.
ProcessCheckForMisbehaviour(store, header) ==
    IF header.status = "undecodable" THEN Fail(store)
    ELSE [ok |-> TRUE, store |-> store,
          misbehaviour |-> check_for_misbehaviour(store, header)]

\* UpdateStateOnMisbehaviour dropping the frozen client state instead of storing it
ProcessUpdateStateOnMisbehaviour_unstored(store, header) ==
    IF header.status = "undecodable" THEN Fail(store)
    ELSE LET r == update_state_on_misbehaviour(store.client_state, header) IN
         IF ~r.ok THEN Fail(store)
         ELSE Done(store)

\* ExecuteMsg::UpdateStateOnMisbehaviour
ProcessUpdateStateOnMisbehaviour(store, header) ==
    IF header.status = "undecodable" THEN Fail(store)
    ELSE LET r == update_state_on_misbehaviour(store.client_state, header) IN
         IF ~r.ok THEN Fail(store)
         ELSE Done(store_client_state(store, r.client_state))

\* UpdateState writing the header's consensus states before update_state has
\* accepted the header
ProcessUpdateState_storing_first(store, header, e) ==
    IF header.status = "undecodable" THEN Fail(store)
    ELSE LET r == update_state(store.client_state, header) IN
         IF ~r.ok THEN [ok |-> FALSE, store |-> store_batch(store, BatchOf(header.entries), e)]
         ELSE store_client_and_consensus_states(store, r.client_state, r.update, e)

\* ExecuteMsg::UpdateState
ProcessUpdateState(store, header, e) ==
    IF header.status = "undecodable" THEN Fail(store)
    ELSE LET r == update_state(store.client_state, header) IN
         IF ~r.ok THEN Fail(store)
         ELSE store_client_and_consensus_states(store, r.client_state, r.update, e)

\* CheckSubstituteAndUpdateState comparing the ibc_core_address only
ProcessCheckSubstituteAndUpdateState_address_only(store, sub_client, sub_consensus, e) ==
    IF ~IsSome(sub_client) THEN Fail(store)
    ELSE LET old_client_state == store.client_state
             substitute == Unwrap(sub_client) IN
         IF old_client_state.ibc_core_address # substitute.ibc_core_address
         THEN Fail(store)
         ELSE LET height == substitute.latest_height IN
              IF ~IsSome(sub_consensus[height]) THEN Fail(store)
              ELSE Done(store_client_state(
                        store_consensus_state(store, height, Unwrap(sub_consensus[height]), e),
                        substitute))

\* ExecuteMsg::CheckSubstituteAndUpdateState
ProcessCheckSubstituteAndUpdateState(store, sub_client, sub_consensus, e) ==
    IF ~IsSome(sub_client) THEN Fail(store)
    ELSE LET old_client_state == store.client_state
             substitute == Unwrap(sub_client) IN
         IF \/ old_client_state.ibc_core_address # substitute.ibc_core_address
            \/ old_client_state.next_upgrade_id # substitute.next_upgrade_id
         THEN Fail(store)
         ELSE LET height == substitute.latest_height IN
              IF ~IsSome(sub_consensus[height]) THEN Fail(store)
              ELSE Done(store_client_state(
                        store_consensus_state(store, height, Unwrap(sub_consensus[height]), e),
                        substitute))

\* ExecuteMsg::VerifyUpgradeAndUpdateState
ProcessVerifyUpgradeAndUpdateState(store, upgrade, e) ==
    LET r == verify_upgrade_and_update_state(store.client_state, upgrade) IN
    IF ~r.ok THEN Fail(store)
    ELSE store_client_and_consensus_states(store, r.client_state, r.update, e)

\* query(QueryMsg::Status)
QueryStatus(cs) ==
    IF IsSome(cs.frozen_height) THEN "Frozen" ELSE "Active"

\* ------------------------------------------------- cf-guest: ClientState
U64Max == 2^U64Bits - 1

\* a + b in u64: with overflow checks the addition panics, without it wraps
U64Add(a, b, checks) ==
    IF a + b > U64Max
    THEN [panic |-> checks, value |-> (a + b) % (U64Max + 1)]
    ELSE [panic |-> FALSE, value |-> a + b]

\* ClientState::verify_delay_passed
verify_delay_passed(current_time, current_height, processed_time, processed_height, delay_period_time, delay_period_blocks, checks) ==
    LET earliest_time == U64Add(processed_time, delay_period_time, checks) IN
    IF earliest_time.panic THEN "Panic"
    ELSE IF current_time < earliest_time.value THEN "NotEnoughTimeElapsed"
    ELSE LET earliest_height == U64Add(processed_height, delay_period_blocks, checks) IN
         IF earliest_height.panic THEN "Panic"
         ELSE IF current_height.revision_height < earliest_height.value
              THEN "NotEnoughBlocksElapsed"
         ELSE "Ok"

\* verify_height without the is_frozen check
verify_height_ignoring_frozen(cs, height) ==
    IF cs.latest_height < height.revision_height THEN "InsufficientHeight"
    ELSE "Ok"

\* ClientState::verify_height
verify_height(cs, height) ==
    IF cs.latest_height < height.revision_height THEN "InsufficientHeight"
    ELSE IF cs.is_frozen THEN "ClientFrozen"
    ELSE "Ok"

\* ClientState::frozen
frozen(cs) == [cs EXCEPT !.is_frozen = TRUE]

\* ClientState::expired: elapsed.as_nanos() as u64 keeps the low 64 bits
expired(trusting_period_ns, elapsed_ns) ==
    (elapsed_ns % (U64Max + 1)) > trusting_period_ns

\* ------------------------------------------------------ contract: inputs
HeaderEntries == [height : Heights, root : Roots]

\* consecutive entries of a batch ascend in height
Batches ==
    {b \in UNION {[1..n -> HeaderEntries] : n \in 1..MaxBatch} :
        \A i \in 1..(Len(b) - 1) : b[i].height < b[i + 1].height}

Headers ==
    {[status |-> "valid", form |-> "Batch", entries |-> b] : b \in Batches}
    \cup {[status |-> "valid", form |-> "Single", entries |-> <<en>>] : en \in HeaderEntries}
    \cup {[status |-> "invalid", form |-> "Single", entries |-> <<en>>] :
            en \in [height : Heights, root : {"ra"}]}
    \cup {[status |-> "undecodable", form |-> "Single", entries |-> <<>>]}

Proofs ==
    [wellformed : {TRUE}, root : Roots, value : {None} \cup {Some(v) : v \in Values}]
    \cup {[wellformed |-> FALSE, root |-> "ra", value |-> None]}

\* delays: the delay periods a message may carry
MembershipMsgs(delays) ==
    [height : Heights, proof : Proofs, value : Values,
     delay_time_period : delays, delay_block_period : delays]

NonMembershipMsgs(delays) ==
    [height : Heights, proof : Proofs,
     delay_time_period : delays, delay_block_period : delays]

Upgrades == [height : Heights, root : Roots, proofs_ok : BOOLEAN]

\* The client the host may have placed under the substitute prefix.
Substitutes ==
    {[client |-> Some([latest_height |-> MaxHeight, frozen_height |-> None,
                       ibc_core_address |-> a, next_upgrade_id |-> 0]),
      root |-> "rb"] : a \in Addrs}

\* ------------------------------------------------------------------ Init
NoCall == [fn |-> "none"]

\* No packets on the channel and send_retrying not called.
IdlePackets ==
    /\ commitments = {}
    /\ receipts = {}
    /\ mempool = {}
    /\ pending = <<>>
    /\ in_flight = None
    /\ delivered = <<>>

IdleSend == send = [pc |-> "idle", attempts |-> 0, result |-> None, outcome |-> "none"]

\* query_latest_ibc_events not called yet.
IdleEvents ==
    /\ cp_client_height = 0
    /\ queried = <<>>

InitContract ==
    /\ \E h0 \in Heights, r0 \in Roots :
        /\ client_state = [latest_height |-> h0, frozen_height |-> None,
                           ibc_core_address |-> "core1", next_upgrade_id |-> 0]
        /\ consensus_states = [h \in Heights |-> IF h = h0 THEN Some(ConsensusState(r0)) ELSE None]
        /\ processed = [h \in Heights |-> IF h = h0 THEN Some([time |-> 0, height |-> 0]) ELSE None]
    /\ \E sub \in Substitutes :
        /\ substitute_client_state = sub.client
        /\ substitute_consensus_states =
             [h \in Heights |-> IF h = Unwrap(sub.client).latest_height
                                THEN Some(ConsensusState(sub.root)) ELSE None]
    /\ env = [height |-> 0, time |-> 0]
    /\ last = [kind |-> "Instantiate", ok |-> TRUE]

Init ==
    /\ InitContract
    /\ guest = [latest_height |-> 1, is_frozen |-> FALSE]
    /\ overflow_checks = FALSE
    /\ call = NoCall
    /\ IdlePackets
    /\ IdleSend
    /\ IdleEvents

\* --------------------------------------------------------------- actions
Commit(r) ==
    /\ client_state' = r.store.client_state
    /\ consensus_states' = r.store.consensus_states
    /\ processed' = r.store.processed

Frame == UNCHANGED <<substitute_client_state, substitute_consensus_states, env,
                     guest, overflow_checks, call, relay_vars>>

VerifyMembershipWith(delays) ==
    \E msg \in MembershipMsgs(delays) :
        LET r == ProcessVerifyMembership(Store, msg) IN
        /\ Commit(r)
        /\ last' = [kind |-> "VerifyMembership", ok |-> r.ok, msg |-> msg]
        /\ Frame

VerifyNonMembershipWith(delays) ==
    \E msg \in NonMembershipMsgs(delays) :
        LET r == ProcessVerifyNonMembership(Store, msg) IN
        /\ Commit(r)
        /\ last' = [kind |-> "VerifyNonMembership", ok |-> r.ok, msg |-> msg]
        /\ Frame

VerifyClientMessage ==
    \E header \in Headers :
        LET r == ProcessVerifyClientMessage(Store, header) IN
        /\ Commit(r)
        /\ last' = [kind |-> "VerifyClientMessage", ok |-> r.ok]
        /\ Frame

CheckForMisbehaviour ==
    \E header \in Headers :
        LET r == ProcessCheckForMisbehaviour(Store, header) IN
        /\ Commit(r)
        /\ last' = [kind |-> "CheckForMisbehaviour", ok |-> r.ok]
        /\ Frame

UpdateStateOnMisbehaviour ==
    \E header \in Headers :
        LET r == ProcessUpdateStateOnMisbehaviour(Store, header) IN
        /\ Commit(r)
        /\ last' = [kind |-> "UpdateStateOnMisbehaviour", ok |-> r.ok]
        /\ Frame

UpdateState ==
    \E header \in Headers :
        LET r == ProcessUpdateState(Store, header, env) IN
        /\ Commit(r)
        /\ last' = [kind |-> "UpdateState", ok |-> r.ok, msg |-> header]
        /\ Frame

CheckSubstituteAndUpdateState ==
    LET r == ProcessCheckSubstituteAndUpdateState(Store, substitute_client_state,
                                                  substitute_consensus_states, env) IN
    /\ Commit(r)
    /\ last' = [kind |-> "CheckSubstituteAndUpdateState", ok |-> r.ok]
    /\ Frame

VerifyUpgradeAndUpdateState ==
    \E upgrade \in Upgrades :
        LET r == ProcessVerifyUpgradeAndUpdateState(Store, upgrade, env) IN
        /\ Commit(r)
        /\ last' = [kind |-> "VerifyUpgradeAndUpdateState", ok |-> r.ok]
        /\ Frame

\* Messages of a connection without delay periods.
VerifyMembership == VerifyMembershipWith({0})
VerifyNonMembership == VerifyNonMembershipWith({0})

\* Messages of a connection with delay periods.
VerifyMembershipDelayed == VerifyMembershipWith(0..MaxDelay)
VerifyNonMembershipDelayed == VerifyNonMembershipWith(0..MaxDelay)

\* The host chain produces a block.
Tick ==
    /\ env.height < MaxTime
    /\ env' = [height |-> env.height + 1, time |-> env.time + 1]
    /\ UNCHANGED <<client_state, consensus_states, processed, substitute_client_state,
                   substitute_consensus_states, last, guest, overflow_checks, call,
                   relay_vars>>

Next ==
    \/ VerifyMembership
    \/ VerifyNonMembership
    \/ VerifyClientMessage
    \/ CheckForMisbehaviour
    \/ UpdateStateOnMisbehaviour
    \/ UpdateState
    \/ CheckSubstituteAndUpdateState
    \/ VerifyUpgradeAndUpdateState

Spec == Init /\ [][Next]_vars

\* The contract on a host whose blocks advance, serving a connection with delays.
NextDelay ==
    \/ VerifyMembershipDelayed
    \/ VerifyNonMembershipDelayed
    \/ UpdateState
    \/ UpdateStateOnMisbehaviour
    \/ Tick

SpecDelay == Init /\ [][NextDelay]_vars

\* The contract with any substitute under SUBSTITUTE_PREFIX: none, one of another
\* ibc_core_address or next_upgrade_id, one with or without a consensus state at
\* its latest height.
SubstituteClients ==
    {None} \cup {Some([latest_height |-> h, frozen_height |-> None,
                       ibc_core_address |-> a, next_upgrade_id |-> u]) :
                    h \in Heights, a \in Addrs, u \in UpgradeIds}

InitSubstitute ==
    /\ \E h0 \in Heights, r0 \in Roots :
        /\ client_state = [latest_height |-> h0, frozen_height |-> None,
                           ibc_core_address |-> "core1", next_upgrade_id |-> 0]
        /\ consensus_states = [h \in Heights |-> IF h = h0 THEN Some(ConsensusState(r0)) ELSE None]
        /\ processed = [h \in Heights |-> IF h = h0 THEN Some([time |-> 0, height |-> 0]) ELSE None]
    /\ substitute_client_state \in SubstituteClients
    /\ substitute_consensus_states \in [Heights -> {None, Some(ConsensusState("rb"))}]
    /\ env = [height |-> 0, time |-> 0]
    /\ last = [kind |-> "Instantiate", ok |-> TRUE]
    /\ guest = [latest_height |-> 1, is_frozen |-> FALSE]
    /\ overflow_checks = FALSE
    /\ call = NoCall
    /\ IdlePackets
    /\ IdleSend
    /\ IdleEvents

NextSubstitute ==
    \/ CheckSubstituteAndUpdateState
    \/ Tick

SpecSubstitute == InitSubstitute /\ [][NextSubstitute]_vars

\* ------------------------------------------------- cf-guest: the helpers
\* u64 values tried: the smallest and the largest
U64Samples == {0, 1, U64Max - 1, U64Max}

GuestHeights == [revision_number : {0, 1}, revision_height : 0..(MaxHeight + 1)]
GuestStates == [latest_height : 0..MaxHeight, is_frozen : BOOLEAN]

DelayCalls ==
    [fn : {"verify_delay_passed"},
     current_time : U64Samples,
     current_height : [revision_number : {1}, revision_height : U64Samples],
     processed_time : U64Samples, processed_height : U64Samples,
     delay_period_time : U64Samples, delay_period_blocks : U64Samples,
     result : {None}]

HeightCalls == [fn : {"verify_height"}, height : GuestHeights, result : {None}]

ExpiredCalls ==
    [fn : {"expired"}, trusting_period_ns : U64Samples, elapsed_ns : U64Samples,
     result : {None}]

\* A Status query, with the time elapsed since the latest consensus state's
\* timestamp and the client's trusting period.
StatusCalls ==
    [fn : {"Status"}, trusting_period_ns : U64Samples, elapsed_ns : U64Samples,
     result : {None}]

\* A helper call is pending with its arguments.
InitGuest ==
    /\ overflow_checks \in BOOLEAN
    /\ \/ /\ call \in DelayCalls
          /\ guest = [latest_height |-> 1, is_frozen |-> FALSE]
       \/ /\ call \in HeightCalls
          /\ guest \in GuestStates
       \/ /\ call \in ExpiredCalls \cup StatusCalls
          /\ guest = [latest_height |-> 1, is_frozen |-> FALSE]
    /\ \E frozen_height \in IF call.fn = "Status" THEN {None, Some(1)} ELSE {None} :
          client_state = [latest_height |-> 1, frozen_height |-> frozen_height,
                          ibc_core_address |-> "core1", next_upgrade_id |-> 0]
    /\ consensus_states = [h \in Heights |-> IF h = 1 THEN Some(ConsensusState("ra")) ELSE None]
    /\ processed = [h \in Heights |-> IF h = 1 THEN Some([time |-> 0, height |-> 0]) ELSE None]
    /\ substitute_client_state = None
    /\ substitute_consensus_states = [h \in Heights |-> None]
    /\ env = [height |-> 0, time |-> 0]
    /\ last = [kind |-> "Instantiate", ok |-> TRUE]
    /\ IdlePackets
    /\ IdleSend
    /\ IdleEvents

VerifyDelayPassed ==
    /\ call.fn = "verify_delay_passed"
    /\ call.result = None
    /\ call' = [call EXCEPT !.result = Some(verify_delay_passed(
                    call.current_time, call.current_height, call.processed_time,
                    call.processed_height, call.delay_period_time,
                    call.delay_period_blocks, overflow_checks))]
    /\ UNCHANGED <<contract_vars, guest, overflow_checks, relay_vars>>

VerifyHeight ==
    /\ call.fn = "verify_height"
    /\ call.result = None
    /\ call' = [call EXCEPT !.result = Some(verify_height(guest, call.height))]
    /\ UNCHANGED <<contract_vars, guest, overflow_checks, relay_vars>>

\* The client is frozen before the pending verify_height call runs.
Frozen ==
    /\ call.fn = "verify_height"
    /\ call.result = None
    /\ ~guest.is_frozen
    /\ guest' = frozen(guest)
    /\ UNCHANGED <<contract_vars, overflow_checks, call, relay_vars>>

Expired ==
    /\ call.fn = "expired"
    /\ call.result = None
    /\ call' = [call EXCEPT !.result = Some(expired(call.trusting_period_ns,
                                                    call.elapsed_ns))]
    /\ UNCHANGED <<contract_vars, guest, overflow_checks, relay_vars>>

\* query(QueryMsg::Status) of the contract
Status ==
    /\ call.fn = "Status"
    /\ call.result = None
    /\ call' = [call EXCEPT !.result = Some(QueryStatus(client_state))]
    /\ UNCHANGED <<contract_vars, guest, overflow_checks, relay_vars>>

NextGuest ==
    \/ VerifyDelayPassed
    \/ VerifyHeight
    \/ Frozen
    \/ Expired
    \/ Status

SpecGuest == InitGuest /\ [][NextGuest]_vars

\* ------------------------------------- parachain: LightClientSync (Grandpa)
MaxRelayHeight == 7     \* relay chain heights tried are 0..MaxRelayHeight
MaxSessionLength == 3   \* session lengths tried are 1..MaxSessionLength
U32Bits == 9            \* width of the model's u32 (the code's is 32)
U32Max == 2^U32Bits - 1

\* a - b in u32: with overflow checks the subtraction panics, without it wraps
U32Sub(a, b, checks) ==
    IF a < b
    THEN [panic |-> checks, value |-> a + (U32Max + 1) - b]
    ELSE [panic |-> FALSE, value |-> a - b]

\* The contract and the guest client at rest, for the relayer's own operations.
IdleContract ==
    /\ client_state = [latest_height |-> 1, frozen_height |-> None,
                       ibc_core_address |-> "core1", next_upgrade_id |-> 0]
    /\ consensus_states = [h \in Heights |-> IF h = 1 THEN Some(ConsensusState("ra")) ELSE None]
    /\ processed = [h \in Heights |-> IF h = 1 THEN Some([time |-> 0, height |-> 0]) ELSE None]
    /\ substitute_client_state = None
    /\ substitute_consensus_states = [h \in Heights |-> None]
    /\ env = [height |-> 0, time |-> 0]
    /\ last = [kind |-> "Instantiate", ok |-> TRUE]
    /\ guest = [latest_height |-> 1, is_frozen |-> FALSE]

\* GrandpaProver::session_end_for_block: sessions have a fixed length; the end of
\* the session of a block is the next session boundary, or the block itself when
\* the prover counts a boundary block as the end of its own session.
session_end_for_block(block, session_length, end_inclusive) ==
    IF end_inclusive /\ block % session_length = 0 THEN block
    ELSE ((block \div session_length) + 1) * session_length

\* LightClientSync::is_synced (Grandpa arm)
is_synced(latest_relay_height, latest_finalized_height, session_length, end_inclusive, checks) ==
    LET previous_finalized_height == latest_relay_height
        session_end_block ==
            session_end_for_block(previous_finalized_height, session_length, end_inclusive)
        difference == U32Sub(latest_finalized_height, session_end_block, checks)
    IN IF difference.panic THEN "Panic"
       ELSE LET session_changes == difference.value \div session_length IN
            IF ~(session_changes >= 1) THEN "Ok(true)" ELSE "Ok(false)"

\* get_message(prover, previous_finalized_height, block, ..): the update message
\* built from the finality proof between the two heights
get_message(previous_finalized_height, block) ==
    [from |-> previous_finalized_height, to |-> block]

\* the loop leaving previous_finalized_height where it started
RECURSIVE session_messages_from_start(_, _, _, _)
session_messages_from_start(previous_finalized_height, session_end_block, latest_finalized_height, session_length) ==
    IF session_end_block < latest_finalized_height
    THEN <<get_message(previous_finalized_height, session_end_block)>>
         \o session_messages_from_start(previous_finalized_height,
                                        session_end_block + session_length,
                                        latest_finalized_height, session_length)
    ELSE <<get_message(previous_finalized_height, latest_finalized_height)>>

\* the loop running while session_end_block <= latest_finalized_height
RECURSIVE session_messages_to_latest(_, _, _, _)
session_messages_to_latest(previous_finalized_height, session_end_block, latest_finalized_height, session_length) ==
    IF session_end_block <= latest_finalized_height
    THEN <<get_message(previous_finalized_height, session_end_block)>>
         \o session_messages_to_latest(session_end_block, session_end_block + session_length,
                                       latest_finalized_height, session_length)
    ELSE <<get_message(previous_finalized_height, latest_finalized_height)>>

\* the while loop of fetch_mandatory_updates and the final message after it
RECURSIVE session_messages(_, _, _, _)
session_messages(previous_finalized_height, session_end_block, latest_finalized_height, session_length) ==
    IF session_end_block < latest_finalized_height
    THEN <<get_message(previous_finalized_height, session_end_block)>>
         \o session_messages(session_end_block, session_end_block + session_length,
                             latest_finalized_height, session_length)
    ELSE <<get_message(previous_finalized_height, latest_finalized_height)>>

\* LightClientSync::fetch_mandatory_updates (Grandpa arm). The heights tried stay
\* far below u32::MAX, so session_end_block + session_length does not overflow.
fetch_mandatory_updates(latest_relay_height, latest_finalized_height, session_length, end_inclusive) ==
    LET previous_finalized_height == latest_relay_height
        session_block_end ==
            session_end_for_block(previous_finalized_height, session_length, end_inclusive)
        session_end_block == IF session_block_end = previous_finalized_height
                             THEN session_block_end + session_length
                             ELSE session_block_end
    IN session_messages(previous_finalized_height, session_end_block,
                        latest_finalized_height, session_length)

\* relay chain heights and session lengths tried: small ones, and the ones around
\* the session-boundary scenario (heights 100 to 240, sessions of 50)
SyncScenes ==
    [latest_relay_height : 0..MaxRelayHeight,
     latest_finalized_height : 0..MaxRelayHeight,
     session_length : 1..MaxSessionLength]
    \cup [latest_relay_height : {100, 120, 150},
          latest_finalized_height : {120, 150, 240},
          session_length : {50}]

SyncCalls ==
    {[fn |-> f,
      latest_relay_height |-> s.latest_relay_height,
      latest_finalized_height |-> s.latest_finalized_height,
      session_length |-> s.session_length,
      end_inclusive |-> b,
      result |-> None] : f \in {"is_synced", "fetch_mandatory_updates"},
                         s \in SyncScenes, b \in BOOLEAN}

\* A sync call is pending: the counterparty's client state and the relay chain's
\* finalized head have been read.
InitSync ==
    /\ overflow_checks \in BOOLEAN
    /\ call \in SyncCalls
    /\ IdleContract
    /\ IdlePackets
    /\ IdleSend
    /\ IdleEvents

IsSynced ==
    /\ call.fn = "is_synced"
    /\ call.result = None
    /\ call' = [call EXCEPT !.result = Some(is_synced(
                    call.latest_relay_height, call.latest_finalized_height,
                    call.session_length, call.end_inclusive, overflow_checks))]
    /\ UNCHANGED <<contract_vars, guest, overflow_checks, relay_vars>>

FetchMandatoryUpdates ==
    /\ call.fn = "fetch_mandatory_updates"
    /\ call.result = None
    /\ call' = [call EXCEPT !.result = Some(fetch_mandatory_updates(
                    call.latest_relay_height, call.latest_finalized_height,
                    call.session_length, call.end_inclusive))]
    /\ UNCHANGED <<contract_vars, guest, overflow_checks, relay_vars>>

NextSync ==
    \/ IsSynced
    \/ FetchMandatoryUpdates

SpecSync == InitSync /\ [][NextSync]_vars

\* ------------------------------------------- ethereum: packet discovery
start_seq == 0
end_seq == 5            \* last sequence of the hasCommitments bitmap (the code's is 255)
MaxSequence == end_seq + 1
Sequences == start_seq..MaxSequence

\* the bitmap hasCommitments(port, channel, start_seq, end_seq) answers: one bit
\* per sequence of the range that has a commitment
hasCommitments(committed, from_seq, to_seq) == committed \cap from_seq..to_seq

\* the for loop of query_packet_commitments pushing the higher sequences first
RECURSIVE bits_set_descending(_, _)
bits_set_descending(bitmap, i) ==
    IF i > end_seq - start_seq THEN <<>>
    ELSE bits_set_descending(bitmap, i + 1)
         \o (IF (start_seq + i) \in bitmap THEN <<start_seq + i>> ELSE <<>>)

\* the for loop of query_packet_commitments, from bit i on
RECURSIVE bits_set(_, _)
bits_set(bitmap, i) ==
    IF i > end_seq - start_seq THEN <<>>
    ELSE (IF (start_seq + i) \in bitmap THEN <<start_seq + i>> ELSE <<>>)
         \o bits_set(bitmap, i + 1)

\* IbcProvider::query_packet_commitments
query_packet_commitments(committed) ==
    bits_set(hasCommitments(committed, start_seq, end_seq), 0)

\* PacketReceipt::insert, PacketReceipt::contains_key
PacketReceipt_insert(stored, seq) == stored \cup {seq}
PacketReceipt_contains_key(stored, seq) == seq \in stored

\* has_packet_receipt: the destination's answer for one sequence
has_packet_receipt(stored, seq) == PacketReceipt_contains_key(stored, seq)

\* query_unreceived_packets reporting every sequence it was asked about
query_unreceived_packets_unfiltered(stored, seqs) == seqs

\* IbcProvider::query_unreceived_packets
query_unreceived_packets(stored, seqs) ==
    SelectSeq(seqs, LAMBDA seq : ~has_packet_receipt(stored, seq))

\* Packets are committed on the source; the relayer has not started.
InitPackets ==
    /\ commitments \in SUBSET Sequences
    /\ receipts = {}
    /\ mempool = {}
    /\ pending = <<>>
    /\ in_flight = None
    /\ delivered = <<>>

\* Scheduler step 2: packet discovery, once nothing awaits confirmation.
Discover ==
    /\ send.pc = "idle"
    /\ call.fn \in {"none", "discover", "submit", "confirm", "restart"}
    /\ in_flight = None
    /\ pending' = query_unreceived_packets(receipts, query_packet_commitments(commitments))
    /\ call' = [fn |-> "discover"]
    /\ UNCHANGED <<contract_vars, guest, overflow_checks, commitments, receipts, mempool,
                   in_flight, delivered, send, events_vars>>

\* Scheduler step 5 on an ordered channel: the next sequence of the discovery is
\* submitted, and the scheduler waits for its confirmation.
Submit ==
    /\ in_flight = None
    /\ pending # <<>>
    /\ in_flight' = Some(Head(pending))
    /\ mempool' = mempool \cup {Head(pending)}
    /\ pending' = Tail(pending)
    /\ call' = [fn |-> "submit", seq |-> Head(pending)]
    /\ UNCHANGED <<contract_vars, guest, overflow_checks, commitments, receipts,
                   delivered, send, events_vars>>

\* The destination executes a submitted delivery: a sequence that has a receipt
\* is rejected as already processed, any other gets its receipt. The relayer
\* waiting for this delivery sees it confirmed.
Confirm ==
    /\ \E seq \in mempool :
        /\ IF PacketReceipt_contains_key(receipts, seq)
           THEN UNCHANGED <<receipts, delivered>>
           ELSE /\ receipts' = PacketReceipt_insert(receipts, seq)
                /\ delivered' = Append(delivered, seq)
        /\ mempool' = mempool \ {seq}
        /\ in_flight' = IF in_flight = Some(seq) THEN None ELSE in_flight
        /\ call' = [fn |-> "confirm", seq |-> seq]
    /\ UNCHANGED <<contract_vars, guest, overflow_checks, commitments, pending, send, events_vars>>

\* The relay task is aborted and started again: what it held locally is gone, a
\* submitted delivery stays with the destination.
Restart ==
    /\ call.fn \in {"discover", "submit", "confirm"}
    /\ pending' = <<>>
    /\ in_flight' = None
    /\ call' = [fn |-> "restart"]
    /\ UNCHANGED <<contract_vars, guest, overflow_checks, commitments, receipts, mempool,
                   delivered, send, events_vars>>

\* ------------------------------------------------ ethereum: send_retrying
MaxAttempts == 3        \* attempts are counted up to MaxAttempts

\* What one pass of the loop can meet: the dry run (method.call) reverts; the
\* transaction is sent and mined with status 1, mined with status 0 or dropped;
\* method.send fails with "replacement transaction underpriced" or another error.
SendOutcomes == {"call_reverted", "mined", "mined_failed", "dropped",
                 "underpriced", "other_error"}

\* one pass of send_retrying sleeping and retrying after every failed send
send_retrying_pass_retry_all(outcome) ==
    IF outcome = "call_reverted" THEN [pc |-> "panicked", result |-> None]
    ELSE IF outcome = "mined" THEN [pc |-> "returned", result |-> Some("Ok")]
    ELSE IF outcome \in {"mined_failed", "dropped"} THEN [pc |-> "panicked", result |-> None]
    ELSE [pc |-> "sleep", result |-> None]

\* one pass of the loop of send_retrying: where it goes and what is returned
send_retrying_pass(outcome) ==
    IF outcome = "call_reverted" THEN [pc |-> "panicked", result |-> None]
    ELSE IF outcome = "mined" THEN [pc |-> "returned", result |-> Some("Ok")]
    ELSE IF outcome \in {"mined_failed", "dropped"} THEN [pc |-> "panicked", result |-> None]
    ELSE IF outcome = "underpriced" THEN [pc |-> "sleep", result |-> None]
    ELSE [pc |-> "returned", result |-> Some("Err")]

\* send_retrying has been called.
InitSend == send = [pc |-> "send", attempts |-> 0, result |-> None, outcome |-> "none"]

\* method.call() and method.send() of one pass, and the match on the result
SendAttempt ==
    /\ send.pc = "send"
    /\ \E outcome \in SendOutcomes :
        LET pass == send_retrying_pass(outcome) IN
        send' = [pc |-> pass.pc,
                 attempts |-> IF send.attempts < MaxAttempts THEN send.attempts + 1
                              ELSE MaxAttempts,
                 result |-> pass.result,
                 outcome |-> outcome]
    /\ UNCHANGED <<contract_vars, guest, overflow_checks, call, packet_vars, events_vars>>

\* sleep(Duration::from_secs(1)).await; continue
Sleep ==
    /\ send.pc = "sleep"
    /\ send' = [send EXCEPT !.pc = "send"]
    /\ UNCHANGED <<contract_vars, guest, overflow_checks, call, packet_vars, events_vars>>

\* -------------------------------------- ethereum: query_latest_ibc_events
NUMBER_OF_BLOCKS_TO_PROCESS_PER_ITER == 4   \* blocks handled by one call (scaled down)
MaxBlock == 4           \* execution block numbers are 0..MaxBlock

Min(a, b) == IF a <= b THEN a ELSE b

\* the proof loop giving up only after one attempt more than tries
RECURSIVE prove_loop_one_more(_, _, _)
prove_loop_one_more(proofs, i, tries) ==
    LET maybe_proof == proofs[i + 1] IN
    IF IsSome(maybe_proof) THEN [header |-> maybe_proof, attempts |-> i + 1]
    ELSE IF i + 1 > tries THEN [header |-> None, attempts |-> i + 1]
    ELSE prove_loop_one_more(proofs, i + 1, tries)

\* the loop around prove_fast, entered with i attempts made: proofs[k] is what
\* the k-th attempt yields, None for an error and Some(block number) for a header
RECURSIVE prove_loop(_, _, _)
prove_loop(proofs, i, tries) ==
    LET maybe_proof == proofs[i + 1] IN
    IF IsSome(maybe_proof) THEN [header |-> maybe_proof, attempts |-> i + 1]
    ELSE IF i + 1 >= tries THEN [header |-> None, attempts |-> i + 1]
    ELSE prove_loop(proofs, i + 1, tries)

\* query_latest_ibc_events emitting an update also for a proven block number equal
\* to the client's latest height
query_latest_ibc_events_at_or_above(latest_cp_client_height, number, proofs) ==
    LET from == latest_cp_client_height + 1
        to == Min(number, latest_cp_client_height
                            + NUMBER_OF_BLOCKS_TO_PROCESS_PER_ITER \div 2)
        tries == NUMBER_OF_BLOCKS_TO_PROCESS_PER_ITER \div 2
        proved == prove_loop(proofs, 0, tries)
    IN IF ~IsSome(proved.header)
       THEN [ok |-> TRUE, updates |-> <<>>, attempts |-> proved.attempts]
       ELSE LET block_number == Unwrap(proved.header) IN
            IF block_number < latest_cp_client_height
            THEN [ok |-> TRUE, updates |-> <<>>, attempts |-> proved.attempts]
            ELSE [ok |-> TRUE,
                  updates |-> <<[height |-> block_number, from |-> from, to |-> to,
                                 update_type |-> "Mandatory"]>>,
                  attempts |-> proved.attempts]

\* IbcProvider::query_latest_ibc_events: the log window, the number of proof
\* attempts and the updates returned
query_latest_ibc_events(latest_cp_client_height, number, proofs) ==
    LET from == latest_cp_client_height + 1
        to == Min(number, latest_cp_client_height
                            + NUMBER_OF_BLOCKS_TO_PROCESS_PER_ITER \div 2)
        tries == NUMBER_OF_BLOCKS_TO_PROCESS_PER_ITER \div 2
        proved == prove_loop(proofs, 0, tries)
    IN IF ~IsSome(proved.header)
       THEN [ok |-> TRUE, updates |-> <<>>, attempts |-> proved.attempts]
       ELSE LET block_number == Unwrap(proved.header) IN
            IF block_number <= latest_cp_client_height
            THEN [ok |-> TRUE, updates |-> <<>>, attempts |-> proved.attempts]
            ELSE [ok |-> TRUE,
                  updates |-> <<[height |-> block_number, from |-> from, to |-> to,
                                 update_type |-> "Mandatory"]>>,
                  attempts |-> proved.attempts]

ProofOutcomes == {None} \cup {Some(b) : b \in 0..MaxBlock}

EventsCalls ==
    [fn : {"query_latest_ibc_events"},
     latest_cp_client_height : 0..MaxBlock,
     number : 0..MaxBlock,
     proofs : [1..(NUMBER_OF_BLOCKS_TO_PROCESS_PER_ITER \div 2 + 1) -> ProofOutcomes],
     result : {None}]

QueryLatestIbcEvents ==
    /\ call.fn = "query_latest_ibc_events"
    /\ call.result = None
    /\ call' = [call EXCEPT !.result = Some(query_latest_ibc_events(
                    call.latest_cp_client_height, call.number, call.proofs))]
    /\ UNCHANGED <<contract_vars, guest, overflow_checks, relay_vars>>

\* ------------------------------------------------- the relayer's operations
\* One of: packets wait on a channel, send_retrying has been called, a finality
\* event has triggered query_latest_ibc_events.
InitRelay ==
    /\ IdleContract
    /\ overflow_checks = FALSE
    /\ \/ /\ InitPackets
          /\ IdleSend
          /\ IdleEvents
          /\ call = NoCall
       \/ /\ IdlePackets
          /\ InitSend
          /\ IdleEvents
          /\ call = NoCall
       \/ /\ IdlePackets
          /\ IdleSend
          /\ IdleEvents
          /\ call \in EventsCalls

NextRelay ==
    \/ Discover
    \/ Submit
    \/ Confirm
    \/ Restart
    \/ SendAttempt
    \/ Sleep
    \/ QueryLatestIbcEvents

SpecRelay == InitRelay /\ [][NextRelay]_vars

\* send_retrying is scheduled: a pending send or sleep eventually runs.
SpecRelayFair == SpecRelay /\ WF_vars(SendAttempt) /\ WF_vars(Sleep)

\* ------------------------------------------------------ create_intervals
SEQUENCES_PER_ITER == 3    \* sequences per interval (the code's is 256)
MaxIntervals == 4          \* intervals pushed before the model stops following the loop

\* u64 subtraction: panics with overflow checks, wraps without
U64Sub(a, b, checks) ==
    IF a < b
    THEN [panic |-> checks, value |-> (a - b + U64Max + 1) % (U64Max + 1)]
    ELSE [panic |-> FALSE, value |-> a - b]

\* create_intervals has been called: current_start = start, no interval yet.
IntervalCalls ==
    {[fn |-> "create_intervals", start |-> start, end |-> end,
      current_start |-> start, intervals |-> <<>>, pc |-> "loop"] :
        start \in 0..U64Max, end \in 0..U64Max}

InitIntervals ==
    /\ IdleContract
    /\ overflow_checks \in BOOLEAN
    /\ IdlePackets
    /\ IdleSend
    /\ IdleEvents
    /\ call \in IntervalCalls

\* create_intervals: the loop test and one pass of the loop body
CreateIntervals ==
    /\ call.fn = "create_intervals"
    /\ call.pc = "loop"
    /\ IF call.current_start <= call.end
       THEN /\ Len(call.intervals) < MaxIntervals
            /\ LET sum == U64Add(call.current_start, SEQUENCES_PER_ITER, overflow_checks)
                   last_of_chunk == U64Sub(sum.value, 1, overflow_checks)
                   current_end == Min(last_of_chunk.value, call.end)
                   next_start == U64Add(current_end, 1, overflow_checks)
               IN IF sum.panic \/ last_of_chunk.panic
                  THEN call' = [call EXCEPT !.pc = "panic"]
                  ELSE IF next_start.panic
                  THEN call' = [call EXCEPT
                                   !.intervals = Append(@, <<call.current_start, current_end>>),
                                   !.pc = "panic"]
                  ELSE call' = [call EXCEPT
                                   !.intervals = Append(@, <<call.current_start, current_end>>),
                                   !.current_start = next_start.value]
       ELSE call' = [call EXCEPT !.pc = "returned"]
    /\ UNCHANGED <<contract_vars, guest, overflow_checks, relay_vars>>

NextIntervals == CreateIntervals

SpecIntervals == InitIntervals /\ [][NextIntervals]_vars

\* ------------------------------------------- consecutive relay iterations
\* The relay loop calls query_latest_ibc_events once per finality event and
\* submits the update it emits to the counterparty, whose client is then at the
\* update's height when the next call reads it.
InitIterations ==
    /\ IdleContract
    /\ overflow_checks = FALSE
    /\ IdlePackets
    /\ IdleSend
    /\ call = NoCall
    /\ cp_client_height \in 0..1
    /\ queried = <<>>

\* One iteration: the head is at or above the client's height, the prover proves
\* the finalized block, at or below the head, or fails.
RelayIteration ==
    \E number \in cp_client_height..MaxBlock, finalized \in 0..MaxBlock :
    \E proofs \in [1..(NUMBER_OF_BLOCKS_TO_PROCESS_PER_ITER \div 2 + 1)
                      -> {None, Some(finalized)}] :
        /\ finalized <= number
        /\ LET r == query_latest_ibc_events(cp_client_height, number, proofs)
           IN /\ call' = [fn |-> "query_latest_ibc_events",
                          latest_cp_client_height |-> cp_client_height,
                          number |-> number, proofs |-> proofs, result |-> Some(r)]
              /\ IF r.updates = <<>>
                 THEN UNCHANGED events_vars
                 ELSE /\ cp_client_height' = r.updates[1].height
                      /\ queried' = Append(queried, r.updates[1])
        /\ UNCHANGED <<contract_vars, guest, overflow_checks, packet_vars, send>>

NextIterations == RelayIteration

SpecIterations == InitIterations /\ [][NextIterations]_vars

\* ================================================================ claims
IsFrozen == IsSome(client_state.frozen_height)
ProofMsgs == {"VerifyMembership", "VerifyNonMembership"}
ReadOnlyMsgs == {"VerifyMembership", "VerifyNonMembership", "VerifyClientMessage",
                 "CheckForMisbehaviour"}
\* the value a proof message expects at its path
Expected(l) == IF l.kind = "VerifyMembership" THEN Some(l.msg.value) ELSE None

\* C1: once the stored client state has frozen_height set, every later UpdateState,
\* VerifyMembership and VerifyNonMembership message is rejected.
C1_FrozenRejectsUpdatesAndProofs ==
    [][(IsFrozen /\ last'.kind \in ProofMsgs \cup {"UpdateState"}) => ~last'.ok]_vars

\* C2 as stated: for a frozen client verify_height answers ClientFrozen for every
\* target height.
C2_FrozenAlwaysClientFrozen ==
    (call.fn = "verify_height" /\ IsSome(call.result) /\ guest.is_frozen)
        => Unwrap(call.result) = "ClientFrozen"

\* C2 as amended: for a frozen client verify_height fails for every target height,
\* with ClientFrozen when the height is at or below latest_height and with
\* InsufficientHeight when it is above.
C2_FrozenNeverPasses ==
    (call.fn = "verify_height" /\ IsSome(call.result) /\ guest.is_frozen)
        => Unwrap(call.result) =
             IF call.height.revision_height > guest.latest_height
             THEN "InsufficientHeight" ELSE "ClientFrozen"

C2_Witness ==
    /\ call.fn = "verify_height"
    /\ guest.is_frozen
    /\ call.height.revision_height < guest.latest_height
    /\ call.result = Some("ClientFrozen")

\* C3: verify_delay_passed returns success if and only if t >= pt+dt and h >= ph+db.
C3_DelayPassedIff ==
    (call.fn = "verify_delay_passed" /\ IsSome(call.result))
        => (Unwrap(call.result) = "Ok"
              <=> /\ call.current_time >= call.processed_time + call.delay_period_time
                  /\ call.current_height.revision_height
                       >= call.processed_height + call.delay_period_blocks)

\* C3 restricted to inputs whose two sums fit in u64: there the equivalence holds.
DelayPassedIffWithinU64 ==
    (/\ call.fn = "verify_delay_passed" /\ IsSome(call.result)
     /\ call.processed_time + call.delay_period_time <= U64Max
     /\ call.processed_height + call.delay_period_blocks <= U64Max)
        => (Unwrap(call.result) = "Ok"
              <=> /\ call.current_time >= call.processed_time + call.delay_period_time
                  /\ call.current_height.revision_height
                       >= call.processed_height + call.delay_period_blocks)

\* C4: a successful UpdateState never replaces a ConsensusState already stored at a
\* height with a different value.
C4_StoredConsensusStateKept ==
    [][(last'.kind = "UpdateState" /\ last'.ok)
        => \A h \in Heights :
              IsSome(consensus_states[h]) => consensus_states'[h] = consensus_states[h]]_vars

\* C5: a successful UpdateState never decreases the latest_height of the stored
\* client state.
C5_LatestHeightMonotone ==
    [][(last'.kind = "UpdateState" /\ last'.ok)
        => client_state'.latest_height >= client_state.latest_height]_vars

C5_Witness ==
    /\ last.kind = "UpdateState"
    /\ last.ok
    /\ Target(last.msg).height < client_state.latest_height

\* C6: after a successful UpdateState, submitting the same header again succeeds
\* too and leaves every stored ConsensusState as the first submission left it.
C6_ResubmissionIdempotent ==
    (last.kind = "UpdateState" /\ last.ok)
        => LET again == ProcessUpdateState(Store, last.msg, env) IN
           /\ again.ok
           /\ again.store.consensus_states = consensus_states

C6_Witness ==
    /\ last.kind = "UpdateState"
    /\ last.ok
    /\ last.msg.form = "Batch"
    /\ consensus_states[Target(last.msg).height] = Some(EntryCs(Target(last.msg)))

\* C7: after a successful UpdateStateOnMisbehaviour frozen_height is set and the
\* Status query answers Frozen, and every message other than a client substitution
\* leaves the client frozen.
C7_FrozenUntilSubstituted ==
    /\ []((last.kind = "UpdateStateOnMisbehaviour" /\ last.ok)
            => (IsFrozen /\ QueryStatus(client_state) = "Frozen"))
    /\ [][(IsFrozen /\ last'.kind # "CheckSubstituteAndUpdateState")
            => (IsSome(client_state'.frozen_height)
                /\ QueryStatus(client_state') = "Frozen")]_vars

C7_Witness ==
    /\ IsFrozen
    /\ QueryStatus(client_state) = "Frozen"
    /\ last.kind = "UpdateState"
    /\ ~last.ok

\* C8: VerifyMembership and VerifyNonMembership succeed only when a ConsensusState
\* is stored at the height named in the message and the proof verifies against the
\* root of that ConsensusState.
C8_ProofAgainstStoredRoot ==
    (last.kind \in ProofMsgs /\ last.ok)
        => /\ IsSome(consensus_states[last.msg.height])
           /\ verify_ibc_proof(last.msg.proof,
                               Unwrap(consensus_states[last.msg.height]).root,
                               Expected(last)) = "Yes"

C8_Witness ==
    /\ last.kind = "VerifyMembership"
    /\ last.ok
    /\ last.msg.height < client_state.latest_height

\* C9: a membership or non-membership proof is accepted only after both the time
\* delay and the block delay have elapsed since the client update that stored the
\* proof's root.
C9_DelayElapsedBeforeProof ==
    (last.kind \in ProofMsgs /\ last.ok /\ IsSome(processed[last.msg.height]))
        => LET stored == Unwrap(processed[last.msg.height]) IN
           /\ env.time >= stored.time + last.msg.delay_time_period
           /\ env.height >= stored.height + last.msg.delay_block_period

\* C10: VerifyMembership, VerifyNonMembership, VerifyClientMessage and
\* CheckForMisbehaviour never change the stored client state or any stored
\* consensus state, whether they succeed or fail.
C10_VerificationReadOnly ==
    [][(last'.kind \in ReadOnlyMsgs)
        => (client_state' = client_state /\ consensus_states' = consensus_states)]_vars

C10_Witness ==
    /\ last.kind = "CheckForMisbehaviour"
    /\ last.ok
    /\ check_for_misbehaviour(Store, [status |-> "valid", form |-> "Single",
                                      entries |-> <<[height |-> 1, root |-> "rb"]>>])

BoundariesBetween(low, high, session_length) ==
    {b \in (low + 1)..(high - 1) : b % session_length = 0}

\* C12: fetch_mandatory_updates returns one update per session boundary strictly
\* between latest_relay_height and the latest finalized height, in ascending
\* order, followed by one final message that targets the latest finalized height;
\* for latest_relay_height 100, session length 50 and latest finalized height 240
\* the targets are exactly 150, 200, 240.
C12_OneUpdatePerBoundaryThenLatest ==
    (call.fn = "fetch_mandatory_updates" /\ IsSome(call.result))
        => LET messages == Unwrap(call.result)
               n == Len(messages)
           IN /\ n >= 1
              /\ messages[n].to = call.latest_finalized_height
              /\ {messages[i].to : i \in 1..(n - 1)}
                   = BoundariesBetween(call.latest_relay_height,
                                       call.latest_finalized_height, call.session_length)
              /\ \A i \in 1..(n - 1) : messages[i].to < messages[i + 1].to
              /\ (/\ call.latest_relay_height = 100
                  /\ call.session_length = 50
                  /\ call.latest_finalized_height = 240)
                    => (n = 3 /\ messages[1].to = 150 /\ messages[2].to = 200
                        /\ messages[3].to = 240)

C12_Witness ==
    /\ call.fn = "fetch_mandatory_updates"
    /\ call.latest_relay_height = 100
    /\ call.session_length = 50
    /\ call.latest_finalized_height = 240
    /\ call.result = Some(<<get_message(100, 150), get_message(150, 200),
                            get_message(200, 240)>>)

\* C13: in the list fetch_mandatory_updates returns, the first message starts at
\* latest_relay_height, every later message starts at the height where the
\* previous one ends, and no message spans more than one session boundary.
C13_MessagesChainedOneBoundaryEach ==
    (call.fn = "fetch_mandatory_updates" /\ IsSome(call.result))
        => LET messages == Unwrap(call.result)
               n == Len(messages)
           IN /\ messages[1].from = call.latest_relay_height
              /\ \A i \in 2..n : messages[i].from = messages[i - 1].to
              /\ \A i \in 1..n :
                    Cardinality({b \in (messages[i].from + 1)..messages[i].to :
                                    b % call.session_length = 0}) <= 1

C13_Witness ==
    /\ call.fn = "fetch_mandatory_updates"
    /\ IsSome(call.result)
    /\ Len(Unwrap(call.result)) >= 3
    /\ call.latest_relay_height % call.session_length # 0
    /\ call.latest_finalized_height % call.session_length # 0

\* C14: is_synced answers true exactly when fewer than one full session has been
\* crossed since the end of the client's current session, and it answers true,
\* without failing, when the latest finalized height is below that session end.
C14_SyncedIffWithinSession ==
    (call.fn = "is_synced" /\ IsSome(call.result))
        => LET session_end_block ==
                   session_end_for_block(call.latest_relay_height, call.session_length,
                                         call.end_inclusive)
           IN /\ Unwrap(call.result) # "Panic"
              /\ Unwrap(call.result) = "Ok(true)"
                   <=> call.latest_finalized_height < session_end_block + call.session_length

\* C14 restricted to a latest finalized height at or beyond the session end: there
\* the subtraction stays within u32 and the equivalence holds.
SyncedIffFromSessionEnd ==
    (/\ call.fn = "is_synced" /\ IsSome(call.result)
     /\ call.latest_finalized_height
          >= session_end_for_block(call.latest_relay_height, call.session_length,
                                   call.end_inclusive))
        => LET session_end_block ==
                   session_end_for_block(call.latest_relay_height, call.session_length,
                                         call.end_inclusive)
           IN /\ Unwrap(call.result) # "Panic"
              /\ Unwrap(call.result) = "Ok(true)"
                   <=> call.latest_finalized_height < session_end_block + call.session_length

\* C15: a client is expired exactly when the time elapsed since its latest
\* consensus state's timestamp is strictly greater than the trusting period, and
\* the Status query answers Expired, not Active, for a client that is not frozen
\* and is expired.
C15_ExpiredReported ==
    /\ (call.fn = "expired" /\ IsSome(call.result))
          => (Unwrap(call.result) <=> call.elapsed_ns > call.trusting_period_ns)
    /\ (call.fn = "Status" /\ IsSome(call.result))
          => Unwrap(call.result) =
               IF IsFrozen THEN "Frozen"
               ELSE IF call.elapsed_ns > call.trusting_period_ns THEN "Expired"
               ELSE "Active"

\* The first half of C15 alone: expired compares strictly.
ExpiredIffStrictlyGreater ==
    (call.fn = "expired" /\ IsSome(call.result))
        => (Unwrap(call.result) <=> call.elapsed_ns > call.trusting_period_ns)

\* Height ordering of IBC: by revision number first, by revision height within
\* the same revision.
HeightExceeds(a, b) ==
    \/ a.revision_number > b.revision_number
    \/ (a.revision_number = b.revision_number /\ a.revision_height > b.revision_height)

\* ClientState::latest_height: the guest chain's revision number is 1
GuestLatestHeight == [revision_number |-> 1, revision_height |-> guest.latest_height]

\* C16: verify_height fails with InsufficientHeight exactly when the target height
\* exceeds the client's latest_height, heights being compared by revision number
\* first and by revision height only within the same revision.
C16_InsufficientHeightIffExceeds ==
    (call.fn = "verify_height" /\ IsSome(call.result))
        => (Unwrap(call.result) = "InsufficientHeight"
              <=> HeightExceeds(call.height, GuestLatestHeight))

\* C16 restricted to targets of the client's own revision: there it holds.
InsufficientHeightIffExceedsSameRevision ==
    (/\ call.fn = "verify_height" /\ IsSome(call.result)
     /\ call.height.revision_number = GuestLatestHeight.revision_number)
        => (Unwrap(call.result) = "InsufficientHeight"
              <=> HeightExceeds(call.height, GuestLatestHeight))

\* C17: once a receipt for a sequence has been written on the destination, every
\* later packet discovery leaves that sequence out of the unreceived set; receipts
\* are never removed, so discovery run again after a restart skips it too.
C17_ReceiptKeepsSequenceOut ==
    [][/\ receipts \subseteq receipts'
       /\ call'.fn = "discover"
            => \A i \in DOMAIN pending' : pending'[i] \notin receipts']_vars

C17_Witness ==
    /\ call.fn = "discover"
    /\ receipts \cap commitments # {}
    /\ pending # <<>>

StrictlyIncreasing(seqs) == \A i \in 1..(Len(seqs) - 1) : seqs[i] < seqs[i + 1]

\* C18: on an ordered channel packets are delivered in strictly increasing
\* sequence order, and a sequence is submitted only when every lower committed
\* sequence has been delivered and no delivery of another undelivered sequence
\* is unconfirmed; with the sequences 1..5 pending the delivery order is exactly
\* 1, 2, 3, 4, 5.
C18_OrderedDelivery ==
    /\ [](/\ StrictlyIncreasing(delivered)
          /\ (commitments = 1..5 /\ receipts = 1..5) => delivered = <<1, 2, 3, 4, 5>>)
    /\ [][call'.fn = "submit"
            => /\ \A m \in hasCommitments(commitments, start_seq, end_seq) :
                    m < call'.seq => m \in receipts
               /\ \A m \in mempool : m # call'.seq => m \in receipts]_vars

C18_Witness ==
    /\ commitments = 1..5
    /\ delivered = <<1, 2, 3, 4, 5>>

\* C19: send_retrying returns to its caller after finitely many attempts, also
\* when every attempt fails with the same transient error: a call that has been
\* made ends.
C19_SendRetryingEnds ==
    (send.pc = "send") ~> (send.pc \in {"returned", "panicked"})

\* C20: query_latest_ibc_events attempts the finality proof at most
\* NUMBER_OF_BLOCKS_TO_PROCESS_PER_ITER / 2 times, and when every attempt fails it
\* returns an empty update list without an error.
C20_ProofAttemptsBounded ==
    (call.fn = "query_latest_ibc_events" /\ IsSome(call.result))
        => LET r == Unwrap(call.result)
               tries == NUMBER_OF_BLOCKS_TO_PROCESS_PER_ITER \div 2
           IN /\ r.attempts <= tries
              /\ (\A k \in 1..tries : call.proofs[k] = None)
                    => (r.ok /\ r.updates = <<>>)

C20_Witness ==
    /\ call.fn = "query_latest_ibc_events"
    /\ IsSome(call.result)
    /\ \A k \in 1..(NUMBER_OF_BLOCKS_TO_PROCESS_PER_ITER \div 2) : call.proofs[k] = None
    /\ Unwrap(call.result).attempts = NUMBER_OF_BLOCKS_TO_PROCESS_PER_ITER \div 2
    /\ Unwrap(call.result).updates = <<>>

\* C21: send_retrying makes another attempt only after a submission that failed
\* with the underpriced-replacement error; any other submission error is returned
\* to the caller after that attempt, without a retry.
C21_RetryOnlyWhenUnderpriced ==
    /\ [](/\ send.pc = "sleep" => send.outcome = "underpriced"
          /\ send.outcome = "other_error"
               => (send.pc = "returned" /\ send.result = Some("Err")))
    /\ [][(send.pc = "send" /\ send.attempts >= 1 /\ send' # send)
            => send.outcome = "underpriced"]_vars

C21_Witness ==
    /\ send.pc = "returned"
    /\ send.outcome = "other_error"
    /\ send.attempts = 2

\* the header the proof loop of a query_latest_ibc_events call ends with
ProvenBy(c) ==
    prove_loop(c.proofs, 0, NUMBER_OF_BLOCKS_TO_PROCESS_PER_ITER \div 2).header

\* C22: query_latest_ibc_events returns a client update only when the proven
\* execution block number is strictly greater than the counterparty client's
\* latest height, and an empty list otherwise; the update it emits targets the
\* proven block number.
C22_UpdateOnlyAboveClientHeight ==
    (call.fn = "query_latest_ibc_events" /\ IsSome(call.result))
        => LET r == Unwrap(call.result)
               proven == ProvenBy(call)
           IN /\ r.updates # <<>>
                   <=> (IsSome(proven) /\ Unwrap(proven) > call.latest_cp_client_height)
              /\ r.updates # <<>>
                   => /\ Len(r.updates) = 1
                      /\ r.updates[1].height = Unwrap(proven)
                      /\ r.updates[1].height > call.latest_cp_client_height

C22_Witness ==
    /\ call.fn = "query_latest_ibc_events"
    /\ IsSome(call.result)
    /\ call.proofs[1] = None
    /\ call.proofs[2] = Some(call.latest_cp_client_height)
    /\ Unwrap(call.result).updates = <<>>

\* C24: every event query_latest_ibc_events returns with a client update occurred
\* at a block height no greater than the update's height. The events are the logs
\* of the blocks from..to, the proven block being no later than the head.
C24_EventsWithinUpdateHeight ==
    (/\ call.fn = "query_latest_ibc_events" /\ IsSome(call.result)
     /\ Unwrap(call.result).updates # <<>>
     /\ Unwrap(ProvenBy(call)) <= call.number)
        => LET update == Unwrap(call.result).updates[1] IN
           \A block \in update.from..update.to : block <= update.height

\* the calls among the emitting ones whose log window holds the block
WindowsHolding(block) ==
    {i \in DOMAIN queried : queried[i].from <= block /\ block <= queried[i].to}

\* C23: with every emitted update applied to the counterparty client before the
\* next call, every block above the client's initial height and at or below the
\* latest emitted update height lies in the log window of exactly one call that
\* emitted an update.
C23_EveryBlockQueriedOnce ==
    queried # <<>>
        => \A block \in queried[1].from .. queried[Len(queried)].height :
              Cardinality(WindowsHolding(block)) = 1

\* C25: every message fetch_mandatory_updates returns targets a height strictly
\* greater than the client's latest_relay_height, and no message is returned when
\* the latest finalized height is not above latest_relay_height.
C25_MandatoryUpdatesAboveClientHeight ==
    (call.fn = "fetch_mandatory_updates" /\ IsSome(call.result))
        => LET messages == Unwrap(call.result) IN
           /\ \A i \in DOMAIN messages : messages[i].to > call.latest_relay_height
           /\ call.latest_finalized_height <= call.latest_relay_height
                 => messages = <<>>

\* C26: is_synced returns true exactly when fetch_mandatory_updates, for the same
\* client state and finalized head, returns no session-boundary message, that is
\* nothing more than the single final message.
C26_SyncedIffNoBoundaryMessage ==
    (call.fn = "is_synced" /\ IsSome(call.result))
        => (Unwrap(call.result) = "Ok(true)"
              <=> Len(fetch_mandatory_updates(call.latest_relay_height,
                          call.latest_finalized_height, call.session_length,
                          call.end_inclusive)) = 1)

\* C27: query_packet_commitments returns every sequence that has a packet
\* commitment, however large the sequence, in ascending order and without
\* duplicates. With no receipt on the destination the discovery leaves its result
\* unfiltered in pending.
C27_AllCommitmentsReturned ==
    (call.fn = "discover" /\ receipts = {})
        => /\ StrictlyIncreasing(pending)
           /\ {pending[i] : i \in DOMAIN pending} = commitments

\* C28: verify_delay_passed never returns success when the true sum
\* processed_time + delay_period_time exceeds the current time or the true sum
\* processed_height + delay_period_blocks exceeds the current height, sums above
\* the largest u64 included.
C28_NoSuccessBeforeDelay ==
    (/\ call.fn = "verify_delay_passed"
     /\ call.result = Some("Ok"))
        => /\ call.processed_time + call.delay_period_time <= call.current_time
           /\ call.processed_height + call.delay_period_blocks
                <= call.current_height.revision_height

\* what CheckSubstituteAndUpdateState refuses: no substitute client state, another
\* ibc_core_address or next_upgrade_id, no consensus state at the substitute's
\* latest height
SubstituteRefused ==
    \/ ~IsSome(substitute_client_state)
    \/ LET substitute == Unwrap(substitute_client_state) IN
       \/ substitute.ibc_core_address # client_state.ibc_core_address
       \/ substitute.next_upgrade_id # client_state.next_upgrade_id
       \/ ~IsSome(substitute_consensus_states[substitute.latest_height])

RECURSIVE Chunks(_, _)
Chunks(start, end) ==
    IF start > end THEN <<>>
    ELSE <<<<start, Min(start + SEQUENCES_PER_ITER - 1, end)>>>>
         \o Chunks(Min(start + SEQUENCES_PER_ITER - 1, end) + 1, end)

\* C30: create_intervals(start, end) terminates for every input: it does not
\* panic and pushes no more intervals than start..end has chunks. For
\* start <= end it returns consecutive, non-overlapping, ascending intervals that
\* cover start..end exactly once, each of at most SEQUENCES_PER_ITER values; for
\* start > end it returns the empty list.
C30_IntervalsCoverExactly ==
    call.fn = "create_intervals"
        => /\ call.pc # "panic"
           /\ Len(call.intervals) <= Len(Chunks(call.start, call.end))
           /\ call.pc = "returned" => call.intervals = Chunks(call.start, call.end)

====
